---- MODULE Spec2Model ----
(***************************************************************************)
(* A model of aivol/sidecar.py: the sidecar naming convention, the        *)
(* directory classifier list_directory, the per-file Handler and the two  *)
(* batch drivers process_sidecar_files and update_and_store_sidecar_files.*)
(*                                                                         *)
(* File names and paths are sequences of one-character strings, so that   *)
(* the string operations of the source (the "in" test, rpartition,        *)
(* startswith, replace, os.path.join, os.path.split) are computed on      *)
(* characters as Python computes them.                                     *)
(***************************************************************************)
EXTENDS Integers, Sequences, FiniteSets, TLC

(* ------------------------------ bounds -------------------------------- *)

\* largest number of entries of the directory at the start (classifier,
\* Handler and process_sidecar_files runs)
MaxFiles == 3

\* largest number of entries of the directory at the start of a run of
\* update_and_store_sidecar_files
MaxBatch == 3

\* largest number of entries of the directory at the start of a run that is
\* followed by a second scan
MaxRerun == 2

\* largest save_interval passed to update_and_store_sidecar_files
MaxInterval == 3

\* largest number of states the caller's function produces for one primary
MaxStates == 2 * MaxInterval + 1

(* ------------------------- names used as inputs ----------------------- *)

Sep == <<"-", "-", "-">>

NameA == <<"a">>
NameAM == NameA \o Sep \o <<"m">>
NameAMZ == NameAM \o Sep \o <<"z">>
NameBM == <<"b">> \o Sep \o <<"m">>
NameABak == <<"a", ".", "b", "a", "k">>
NameA4M == <<"a", "-">> \o Sep \o <<"m">>

\* entry names a directory may hold at the start
Pool == {NameA, NameAM, NameAMZ, NameBM, NameABak, NameA4M}

\* entry names a directory may hold at the start of an update run
BatchPool == {NameA, NameAM, NameAMZ, NameBM}

\* identifiers passed to the drivers
Identifiers == {<<"m">>, <<"m">> \o Sep \o <<"z">>}

\* the directory every run works on
Directory == <<"d">>

(* --------------------------- Python strings --------------------------- *)

\* str.startswith
StartsWith(s, prefix) ==
    /\ Len(s) >= Len(prefix)
    /\ SubSeq(s, 1, Len(prefix)) = prefix

\* str.endswith
EndsWith(s, suffix) ==
    /\ Len(s) >= Len(suffix)
    /\ SubSeq(s, Len(s) - Len(suffix) + 1, Len(s)) = suffix

\* the 1-based positions at which sub occurs in s
Occurs(s, sub) ==
    {i \in 1..(Len(s) - Len(sub) + 1) : SubSeq(s, i, i + Len(sub) - 1) = sub}

\* sub in s
Contains(s, sub) == Occurs(s, sub) # {}

\* str.rfind, 1-based; 0 when sub does not occur
RFind(s, sub) ==
    IF Occurs(s, sub) = {} THEN 0
    ELSE CHOOSE i \in Occurs(s, sub) : \A j \in Occurs(s, sub) : j <= i

\* the mutant of RPartition: splits at the first occurrence (str.partition)
PartitionFirst(s, sub) ==
    IF Occurs(s, sub) = {} THEN << <<>>, <<>>, s >>
    ELSE LET i == CHOOSE i \in Occurs(s, sub) : \A j \in Occurs(s, sub) : i <= j
         IN  << SubSeq(s, 1, i - 1), sub, SubSeq(s, i + Len(sub), Len(s)) >>

\* str.rpartition: (head, sep, tail) around the last occurrence of sub
RPartition(s, sub) ==
    IF RFind(s, sub) = 0 THEN << <<>>, <<>>, s >>
    ELSE << SubSeq(s, 1, RFind(s, sub) - 1), sub,
            SubSeq(s, RFind(s, sub) + Len(sub), Len(s)) >>

\* str.replace(old, new): every non-overlapping occurrence, left to right
RECURSIVE Replace(_, _, _)
Replace(s, old, new) ==
    IF Len(s) < Len(old) THEN s
    ELSE IF StartsWith(s, old)
         THEN new \o Replace(SubSeq(s, Len(old) + 1, Len(s)), old, new)
         ELSE <<Head(s)>> \o Replace(Tail(s), old, new)

\* os.path.join of two components (posixpath)
Join(a, b) ==
    IF StartsWith(b, <<"/">>) THEN b
    ELSE IF a = <<>> \/ EndsWith(a, <<"/">>) THEN a \o b
    ELSE a \o <<"/">> \o b

\* head.rstrip("/")
RECURSIVE RStripSlash(_)
RStripSlash(s) ==
    IF s # <<>> /\ s[Len(s)] = "/" THEN RStripSlash(SubSeq(s, 1, Len(s) - 1))
    ELSE s

\* os.path.split (posixpath): (head, tail) around the last "/"
Split(p) ==
    LET i == RFind(p, <<"/">>)
        head == SubSeq(p, 1, i)
        tail == SubSeq(p, i + 1, Len(p))
    IN  << IF RStripSlash(head) = <<>> THEN head ELSE RStripSlash(head), tail >>

(* ----------------------- the file system and codec -------------------- *)

\* the mapping {} (falsy): what the codec reports for a missing file
Empty == <<>>

\* the content a file has before any run
InitialContent(name) == <<name, 0>>

\* the i-th state the caller's function produces for a primary
ProducedState(primary, i) == <<primary, i>>

\* os.listdir: the names of the entries of directory dir
Listdir(files, dir) ==
    {Split(p)[2] : p \in {q \in DOMAIN files : Split(q)[1] = dir}}

\* universal_load: the stored mapping, or the empty result for a missing file
universal_load(files, path) ==
    IF path \in DOMAIN files THEN files[path] ELSE Empty

\* universal_store: creates or overwrites the file
universal_store(files, path, data) ==
    [q \in DOMAIN files \cup {path} |-> IF q = path THEN data ELSE files[q]]

\* x or y
Or(x, y) == IF x = Empty THEN y ELSE x

(* ------------------------------- Handler ------------------------------ *)

\* the filter of Handler._find
MatchesBaseName(file, base_name) ==
    StartsWith(file, base_name) /\ file # base_name

\* Handler._find: the identifiers of the sidecar files found (list(set(...)):
\* unique, in no particular order)
Find(files, directory, base_name) ==
    LET all_files == Listdir(files, directory)
        matching_files == {file \in all_files : MatchesBaseName(file, base_name)}
    IN  {Replace(file, base_name \o Sep, <<>>) : file \in matching_files}

\* Handler.__init__; has_sidecar_files tells whether the attribute
\* sidecar_files was set
NewHandler(files, file_path, load) ==
    [file_path |-> file_path,
     directory |-> Split(file_path)[1],
     base_name |-> Split(file_path)[2],
     has_sidecar_files |-> load,
     sidecar_files |-> IF load
                       THEN Find(files, Split(file_path)[1], Split(file_path)[2])
                       ELSE {}]

\* the path Handler.get reads
GetPath(h, ident) == Join(h.directory, h.base_name \o Sep \o ident)

\* Handler.get
Get(files, h, ident) == universal_load(files, GetPath(h, ident))

\* the local all_metadata at the end of the loop of Handler.get_all
AllMetadata(files, h) == [ident \in h.sidecar_files |-> Get(files, h, ident)]

\* what a Python function returns when it ends without a return statement
NoneValue == [kind |-> "None", value |-> <<>>]

\* no call has returned yet
NoResult == [kind |-> "unset", value |-> <<>>]

(* --------------------------- list_directory --------------------------- *)

\* the test that makes an entry a sidecar file
IsSidecarOfListed(file, listing) ==
    /\ Contains(file, Sep)
    /\ RPartition(file, Sep)[1] \in listing

\* sidecar_files.setdefault(base_file, []).append(file)
SetDefaultAppend(d, key, x) ==
    IF key \in DOMAIN d THEN [d EXCEPT ![key] = Append(@, x)]
    ELSE [k \in DOMAIN d \cup {key} |-> IF k = key THEN <<x>> ELSE d[k]]

(* ------------------------------ drivers ------------------------------- *)

\* sidecar_file_path of update_and_store_sidecar_files
SidecarFilePath(file_path, ident) == file_path \o Sep \o ident

\* the mutant of SaveDue: saves one state early
SaveDueEarly(n, interval) == (n + 1) % interval = 0

\* the test that persists a produced state inside the loop
SaveDue(n, interval) == n % interval = 0

\* the mutant of FlushDue: the remainder is never flushed
FlushNever(n, interval) == FALSE

\* the mutant of FlushDue: the last state is flushed after every primary
FlushAlways(n, interval) == TRUE

\* the test that persists the last state after exhaustion
FlushDue(n, interval) == n % interval # 0

\* the names bound in the body of process_sidecar_files: its parameters and
\* locals, and the names the module binds at its top level
ProcessLocals ==
    {"directory", "identifier", "function", "non_sidecar_files", "sidecar_files",
     "file", "file_path", "sidecar_file_path"}

ModuleGlobals ==
    {"glob", "os", "universal_load", "universal_store", "sys", "Callable", "Dict",
     "Iterator", "Handler", "list_directory", "load_to_pandas",
     "update_and_store_sidecar_files", "process_sidecar_files"}

\* name lookup in process_sidecar_files; an unbound name raises NameError
NameBound(name) == name \in ProcessLocals \cup ModuleGlobals

(* ------------------------------- state -------------------------------- *)

VARIABLES
    fs,                 \* the file system: path -> stored mapping
    fs0,                \* fs when the current driver run was called
    pc,                 \* where the program is
    op,                 \* the function that was called
    identifier,         \* the drivers' parameter
    save_interval,      \* the drivers' parameter
    all_files,          \* list_directory: set(os.listdir(directory))
    pending,            \* list_directory: entries the loop has not reached
    non_sidecar_files,  \* list_directory: the set being built / returned
    sidecar_files,      \* list_directory: the dict being built / returned
    first_scan,         \* the non_sidecar_files the driver's own scan returned
    todo,               \* drivers: primaries the loop has not reached
    file,               \* drivers: the loop variable
    sidecar_file_path,  \* update driver: local
    counter,            \* update driver: local
    updated_state,      \* update driver: the inner loop variable
    stores,             \* the universal_store calls of the run, in order
    calls,              \* the calls of the caller's function, in order
    produced,           \* primary -> number of states produced for it so far
    exhausted,          \* the primaries whose sequence of states has ended
    handler,            \* the Handler object
    all_metadata,       \* Handler.get_all: local
    result              \* the value the last call returned

vars == <<fs, fs0, pc, op, identifier, save_interval, all_files, pending,
          non_sidecar_files, sidecar_files, first_scan, todo, file,
          sidecar_file_path, counter, updated_state, stores, calls, produced,
          exhausted, handler, all_metadata, result>>

scan_vars == <<all_files, pending, non_sidecar_files, sidecar_files>>
loop_vars == <<todo, file, sidecar_file_path, counter, updated_state>>
log_vars == <<stores, calls, produced, exhausted>>
handler_vars == <<handler, all_metadata, result>>

\* no Handler has been constructed yet
NoHandler ==
    [file_path |-> <<>>, directory |-> <<>>, base_name |-> <<>>,
     has_sidecar_files |-> FALSE, sidecar_files |-> {}]

\* a local variable that is not bound yet
Unbound == <<>>

\* a directory holding the entries of listing, each with its initial content
InitialFs(listing) ==
    [p \in {Join(Directory, name) : name \in listing} |->
        InitialContent(Split(p)[2])]

InitWith(pool, max) ==
    /\ \E listing \in {l \in SUBSET pool : Cardinality(l) <= max} :
          fs = InitialFs(listing)
    /\ fs0 = fs
    /\ pc = "idle"
    /\ op = "none"
    /\ identifier = Unbound
    /\ save_interval = 1
    /\ all_files = {}
    /\ pending = {}
    /\ non_sidecar_files = {}
    /\ sidecar_files = <<>>
    /\ first_scan = {}
    /\ todo = {}
    /\ file = Unbound
    /\ sidecar_file_path = Unbound
    /\ counter = 0
    /\ updated_state = Unbound
    /\ stores = <<>>
    /\ calls = <<>>
    /\ produced = <<>>
    /\ exhausted = {}
    /\ handler = NoHandler
    /\ all_metadata = <<>>
    /\ result = NoResult

Init == InitWith(Pool, MaxFiles)

InitUpdate == InitWith(BatchPool, MaxBatch)

InitRerun == InitWith(BatchPool, MaxRerun)

(* ----------------------- list_directory, stepwise --------------------- *)

\* lines 82-84: the listing is read once and the two results start empty
EnterListDirectory ==
    /\ all_files' = Listdir(fs, Directory)
    /\ pending' = Listdir(fs, Directory)
    /\ non_sidecar_files' = {}
    /\ sidecar_files' = <<>>
    /\ pc' = "list_directory"

\* a direct call of list_directory
CallListDirectory ==
    /\ pc = "idle"
    /\ op' = "list_directory"
    /\ EnterListDirectory
    /\ UNCHANGED <<fs, fs0, identifier, save_interval, first_scan>>
    /\ UNCHANGED <<loop_vars, log_vars, handler_vars>>

\* one iteration of "for file in all_files" (a set: any order)
LdIterate ==
    /\ pc = "list_directory"
    /\ \E f \in pending :
          /\ pending' = pending \ {f}
          /\ IF IsSidecarOfListed(f, all_files)
             THEN /\ sidecar_files' =
                        SetDefaultAppend(sidecar_files, RPartition(f, Sep)[1], f)
                  /\ UNCHANGED non_sidecar_files
             ELSE /\ non_sidecar_files' = non_sidecar_files \cup {f}
                  /\ UNCHANGED sidecar_files
    /\ UNCHANGED <<fs, fs0, pc, op, identifier, save_interval, all_files, first_scan>>
    /\ UNCHANGED <<loop_vars, log_vars, handler_vars>>

\* line 96, for a direct call
LdReturn ==
    /\ pc = "list_directory"
    /\ pending = {}
    /\ op \in {"list_directory", "rescan"}
    /\ pc' = "done"
    /\ UNCHANGED <<fs, fs0, op, identifier, save_interval, first_scan>>
    /\ UNCHANGED <<scan_vars, loop_vars, log_vars, handler_vars>>

(* ------------------- update_and_store_sidecar_files ------------------- *)

\* the call; line 139 starts the scan of the directory
CallUpdate ==
    /\ pc = "idle"
    /\ op' = "update"
    /\ \E ident \in Identifiers : identifier' = ident
    /\ \E interval \in 1..MaxInterval : save_interval' = interval
    /\ fs0' = fs
    /\ EnterListDirectory
    /\ UNCHANGED <<fs, first_scan>>
    /\ UNCHANGED <<loop_vars, log_vars, handler_vars>>

\* lines 139-142: list_directory has returned; the loop over the primaries
\* starts
UpdateScanned ==
    /\ pc = "list_directory"
    /\ pending = {}
    /\ op = "update"
    /\ todo' = non_sidecar_files
    /\ first_scan' = non_sidecar_files
    /\ pc' = "update_loop"
    /\ UNCHANGED <<fs, fs0, op, identifier, save_interval, scan_vars>>
    /\ UNCHANGED <<file, sidecar_file_path, counter, updated_state>>
    /\ UNCHANGED <<log_vars, handler_vars>>

\* lines 142-150: the next primary (a set: any order); the caller's function
\* is called with the path and the loaded state
UpdateNextFile ==
    /\ pc = "update_loop"
    /\ \E f \in todo :
          LET file_path == Join(Directory, f)
              h == NewHandler(fs, file_path, FALSE)
              initial_state == Or(Get(fs, h, identifier), Empty)
          IN  /\ todo' = todo \ {f}
              /\ file' = f
              /\ handler' = h
              /\ sidecar_file_path' = SidecarFilePath(file_path, identifier)
              /\ calls' = Append(calls, <<file_path, initial_state>>)
              /\ produced' = [g \in DOMAIN produced \cup {f} |->
                                 IF g = f THEN 0 ELSE produced[g]]
    /\ counter' = 0
    /\ pc' = "consume"
    /\ UNCHANGED <<fs, fs0, op, identifier, save_interval, first_scan, scan_vars>>
    /\ UNCHANGED <<updated_state, stores, exhausted, all_metadata, result>>

\* lines 151-154: the function produces one more state
Yield ==
    /\ pc = "consume"
    /\ counter < MaxStates
    /\ counter' = counter + 1
    /\ updated_state' = ProducedState(file, counter + 1)
    /\ produced' = [produced EXCEPT ![file] = counter + 1]
    /\ IF SaveDue(counter + 1, save_interval)
       THEN /\ fs' = universal_store(fs, sidecar_file_path, updated_state')
            /\ stores' = Append(stores, <<sidecar_file_path, updated_state'>>)
       ELSE UNCHANGED <<fs, stores>>
    /\ UNCHANGED <<fs0, pc, op, identifier, save_interval, first_scan, scan_vars>>
    /\ UNCHANGED <<todo, file, sidecar_file_path, calls, exhausted, handler_vars>>

\* lines 156-157: the sequence of states has ended
Exhaust ==
    /\ pc = "consume"
    /\ exhausted' = exhausted \cup {file}
    /\ IF FlushDue(counter, save_interval)
       THEN /\ fs' = universal_store(fs, sidecar_file_path, updated_state)
            /\ stores' = Append(stores, <<sidecar_file_path, updated_state>>)
       ELSE UNCHANGED <<fs, stores>>
    /\ pc' = "update_loop"
    /\ UNCHANGED <<fs0, op, identifier, save_interval, first_scan, scan_vars>>
    /\ UNCHANGED <<loop_vars, calls, produced, handler_vars>>

\* the function raises, at its call or while producing its next state:
\* nothing catches the error and the run ends
FunctionRaises ==
    /\ pc = "consume"
    /\ pc' = "raised"
    /\ UNCHANGED <<fs, fs0, op, identifier, save_interval, first_scan, scan_vars>>
    /\ UNCHANGED <<loop_vars, log_vars, handler_vars>>

\* the loop over the primaries has ended
UpdateReturn ==
    /\ pc = "update_loop"
    /\ todo = {}
    /\ pc' = "done"
    /\ UNCHANGED <<fs, fs0, op, identifier, save_interval, first_scan, scan_vars>>
    /\ UNCHANGED <<loop_vars, log_vars, handler_vars>>

\* list_directory is called again on the directory the run has left
Rescan ==
    /\ pc = "done"
    /\ op = "update"
    /\ op' = "rescan"
    /\ EnterListDirectory
    /\ UNCHANGED <<fs, fs0, identifier, save_interval, first_scan>>
    /\ UNCHANGED <<loop_vars, log_vars, handler_vars>>

(* ------------------------ process_sidecar_files ----------------------- *)

\* the call; line 171 starts the scan of the directory
CallProcess ==
    /\ pc = "idle"
    /\ op' = "process"
    /\ \E ident \in Identifiers : identifier' = ident
    /\ fs0' = fs
    /\ EnterListDirectory
    /\ UNCHANGED <<fs, save_interval, first_scan>>
    /\ UNCHANGED <<loop_vars, log_vars, handler_vars>>

\* lines 171-173
ProcessScanned ==
    /\ pc = "list_directory"
    /\ pending = {}
    /\ op = "process"
    /\ todo' = non_sidecar_files
    /\ first_scan' = non_sidecar_files
    /\ pc' = "process_loop"
    /\ UNCHANGED <<fs, fs0, op, identifier, save_interval, scan_vars>>
    /\ UNCHANGED <<file, sidecar_file_path, counter, updated_state>>
    /\ UNCHANGED <<log_vars, handler_vars>>

\* lines 173-175: the first iteration.  Line 175 evaluates self.directory;
\* the name self is bound nowhere, so the evaluation raises NameError before
\* line 176 calls the function
ProcessIterate ==
    /\ pc = "process_loop"
    /\ \E f \in todo :
          /\ todo' = todo \ {f}
          /\ file' = f
    /\ ~NameBound("self")
    /\ pc' = "raised"
    /\ UNCHANGED <<fs, fs0, op, identifier, save_interval, first_scan, scan_vars>>
    /\ UNCHANGED <<sidecar_file_path, counter, updated_state>>
    /\ UNCHANGED <<log_vars, handler_vars>>

\* the loop has ended (the directory holds no primary)
ProcessReturn ==
    /\ pc = "process_loop"
    /\ todo = {}
    /\ pc' = "done"
    /\ UNCHANGED <<fs, fs0, op, identifier, save_interval, first_scan, scan_vars>>
    /\ UNCHANGED <<loop_vars, log_vars, handler_vars>>

(* -------------------------- Handler, as called ------------------------ *)

\* Handler(file_path, load) for a path of the directory
ConstructHandler ==
    /\ pc = "idle"
    /\ \E name \in Pool, load \in BOOLEAN :
          handler' = NewHandler(fs, Join(Directory, name), load)
    /\ op' = "handler"
    /\ pc' = "handler"
    /\ UNCHANGED <<fs, fs0, identifier, save_interval, first_scan, scan_vars>>
    /\ UNCHANGED <<loop_vars, log_vars, all_metadata, result>>

\* Handler.get_all: reads self.sidecar_files (AttributeError when __init__ did
\* not set it), fills all_metadata, and ends without a return statement
GetAll ==
    /\ pc = "handler"
    /\ op' = "get_all"
    /\ IF handler.has_sidecar_files
       THEN /\ all_metadata' = AllMetadata(fs, handler)
            /\ result' = NoneValue
            /\ pc' = "done"
       ELSE /\ pc' = "raised"
            /\ UNCHANGED <<all_metadata, result>>
    /\ UNCHANGED <<fs, fs0, identifier, save_interval, first_scan, scan_vars>>
    /\ UNCHANGED <<loop_vars, log_vars, handler>>

(* ---------------------------- specifications -------------------------- *)

\* the classifier, the Handler and process_sidecar_files
Next ==
    \/ CallListDirectory
    \/ LdIterate
    \/ LdReturn
    \/ CallProcess
    \/ ProcessScanned
    \/ ProcessIterate
    \/ ProcessReturn
    \/ ConstructHandler
    \/ GetAll

Spec == Init /\ [][Next]_vars

\* one run of update_and_store_sidecar_files
NextUpdate ==
    \/ CallUpdate
    \/ LdIterate
    \/ UpdateScanned
    \/ UpdateNextFile
    \/ Yield
    \/ Exhaust
    \/ FunctionRaises
    \/ UpdateReturn

SpecUpdate == InitUpdate /\ [][NextUpdate]_vars

\* one run of update_and_store_sidecar_files, then list_directory again
NextRerun ==
    \/ NextUpdate
    \/ Rescan
    \/ LdReturn

SpecRerun == InitRerun /\ [][NextRerun]_vars

(* ------------------------------- claims ------------------------------- *)

\* the sidecar path of primary f for the identifier of the run
SidecarOf(f) == Directory \o <<"/">> \o f \o Sep \o identifier

\* the contents persisted to path during the run, in order
RECURSIVE StoredTo(_, _)
StoredTo(log, path) ==
    IF log = <<>> THEN <<>>
    ELSE IF Head(log)[1] = path
         THEN <<Head(log)[2]>> \o StoredTo(Tail(log), path)
         ELSE StoredTo(Tail(log), path)

\* the file at path is as it was when the run was called
Untouched(path) ==
    /\ path \in DOMAIN fs <=> path \in DOMAIN fs0
    /\ path \in DOMAIN fs => fs[path] = fs0[path]

\* C1: with save_interval k, the states persisted to the sidecar of a primary
\* are, at every moment, the produced states at positions k, 2k, ... up to the
\* number n produced so far, followed, once the sequence is exhausted with n
\* not a multiple of k, by the n-th state; so a sequence of exactly n states
\* is persisted ceil(n/k) times and, when n >= 1, the sidecar ends holding the
\* n-th state.
C1_SaveIntervalExact ==
    op = "update" =>
        \A f \in DOMAIN produced :
            LET n == produced[f]
                k == save_interval
                saved == StoredTo(stores, SidecarOf(f))
                flushed == f \in exhausted /\ n % k # 0
            IN  /\ Len(saved) = (n \div k) + (IF flushed THEN 1 ELSE 0)
                /\ \A i \in 1..(n \div k) : saved[i] = <<f, i * k>>
                /\ flushed => saved[Len(saved)] = <<f, n>>
                /\ f \in exhausted => Len(saved) = (n + k - 1) \div k
                /\ (f \in exhausted /\ n >= 1) =>
                       /\ SidecarOf(f) \in DOMAIN fs
                       /\ fs[SidecarOf(f)] = <<f, n>>

\* C1 witness: a sequence longer than save_interval >= 2 that ends off a
\* boundary: saved at a boundary and flushed at the end
C1_Witness ==
    /\ op = "update"
    /\ \E f \in exhausted :
          /\ save_interval >= 2
          /\ produced[f] > save_interval
          /\ produced[f] % save_interval # 0

\* C2: when the function's error propagates after n states of the in-flight
\* primary, its sidecar holds the state at position k * floor(n / k), or is as
\* before the run when n < k, so fewer than k produced states are unpersisted;
\* and for no primary that was not started was the function called or the
\* sidecar written.
C2_ErrorKeepsBoundary ==
    (op = "update" /\ pc = "raised") =>
        LET n == produced[file]
            k == save_interval
        IN  /\ IF n >= k
               THEN /\ SidecarOf(file) \in DOMAIN fs
                    /\ fs[SidecarOf(file)] = <<file, k * (n \div k)>>
                    /\ n - fs[SidecarOf(file)][2] <= k - 1
               ELSE Untouched(SidecarOf(file))
            /\ \A g \in todo :
                  /\ \A i \in 1..Len(calls) : calls[i][1] # Directory \o <<"/">> \o g
                  /\ StoredTo(stores, SidecarOf(g)) = <<>>
                  /\ Untouched(SidecarOf(g))

\* C2 witness: the error comes after a boundary save and one more state, with
\* a primary still waiting
C2_Witness ==
    /\ op = "update"
    /\ pc = "raised"
    /\ save_interval >= 2
    /\ produced[file] > save_interval
    /\ produced[file] % save_interval # 0
    /\ todo # {}

\* C2 witness, second case: the error comes before the first boundary, over a
\* sidecar that existed before the run
C2_WitnessEarly ==
    /\ op = "update"
    /\ pc = "raised"
    /\ produced[file] >= 1
    /\ produced[file] < save_interval
    /\ SidecarOf(file) \in DOMAIN fs0

\* C3: a primary for which the function produced no state has no persistence
\* call and its sidecar is as before the run, absent or present.
C3_EmptyLeavesSidecar ==
    op = "update" =>
        \A f \in exhausted :
            produced[f] = 0 =>
                /\ StoredTo(stores, SidecarOf(f)) = <<>>
                /\ Untouched(SidecarOf(f))

\* C3 witness: a primary with an existing sidecar produced nothing, after an
\* earlier primary of the same run had states persisted
C3_Witness ==
    /\ op = "update"
    /\ \E f \in exhausted :
          /\ produced[f] = 0
          /\ SidecarOf(f) \in DOMAIN fs0
          /\ file = f
          /\ stores # <<>>

\* C4: process_sidecar_files ends normally and has called the function exactly
\* once for every primary, with the primary's path and that path followed by
\* "---" and the identifier.
C4_ProcessCallsEachPrimary ==
    (op = "process" /\ pc \in {"done", "raised"}) =>
        /\ pc = "done"
        /\ Len(calls) = Cardinality(first_scan)
        /\ \A f \in first_scan :
              \E i \in 1..Len(calls) :
                 calls[i] = << Directory \o <<"/">> \o f, SidecarOf(f) >>

\* the positions of the returned mapping that hold entry e
Placements(e) ==
    {ki \in UNION {{<<k, i>> : i \in 1..Len(sidecar_files[k])} :
                     k \in DOMAIN sidecar_files} :
        sidecar_files[ki[1]][ki[2]] = e}

\* p is the part of e before the last "---"
BeforeLastSep(e, p) ==
    \E i \in 1..(Len(e) - 2) :
        /\ SubSeq(e, i, i + 2) = Sep
        /\ \A j \in (i + 1)..(Len(e) - 2) : SubSeq(e, j, j + 2) # Sep
        /\ p = SubSeq(e, 1, i - 1)

\* C5: list_directory puts every entry either in the primary set or at exactly
\* one place of the sidecar mapping; an entry is in the list of P exactly when
\* it contains "---", P is its part before the last "---" and P is an entry;
\* entries without "---" are primary; nothing else is returned.
C5_ClassifiedOnce ==
    (op = "list_directory" /\ pc = "done") =>
        /\ non_sidecar_files \subseteq all_files
        /\ \A k \in DOMAIN sidecar_files :
              \A i \in 1..Len(sidecar_files[k]) : sidecar_files[k][i] \in all_files
        /\ \A e \in all_files :
              /\ e \in non_sidecar_files => Placements(e) = {}
              /\ e \notin non_sidecar_files => Cardinality(Placements(e)) = 1
              /\ Occurs(e, Sep) = {} => e \in non_sidecar_files
              /\ \A p \in all_files \cup DOMAIN sidecar_files :
                    (\E ki \in Placements(e) : ki[1] = p)
                        <=> (BeforeLastSep(e, p) /\ p \in all_files)

\* C5 witness: a scan that found a sidecar, and a primary whose name holds
\* "---" (its part before the last "---" is no entry)
C5_Witness ==
    /\ op = "list_directory"
    /\ pc = "done"
    /\ DOMAIN sidecar_files # {}
    /\ \E e \in non_sidecar_files : Occurs(e, Sep) # {}

\* C6: every key of the mapping list_directory returns is in the primary set
\* it returns.
C6_KeysArePrimary ==
    (op = "list_directory" /\ pc = "done") =>
        DOMAIN sidecar_files \subseteq non_sidecar_files

\* C7: for a listed base name B without "---" and any identifier I, the
\* classifier's split of the listed name B---I gives back (B, I).
C7_SplitInvertsNaming ==
    (op = "list_directory" /\ pc = "done") =>
        \A B \in all_files : \A e \in all_files :
            (Occurs(B, Sep) = {} /\ StartsWith(e, B \o Sep)) =>
                LET I == SubSeq(e, Len(B) + Len(Sep) + 1, Len(e))
                IN  /\ RPartition(e, Sep) = <<B, Sep, I>>
                    /\ B \in DOMAIN sidecar_files
                    /\ \E i \in 1..Len(sidecar_files[B]) : sidecar_files[B][i] = e

\* C8: the identifiers a Handler discovers are exactly the directory entries
\* that start with base_name---, with that leading prefix removed once.
C8_DiscoverStripsPrefix ==
    (op \in {"handler", "get_all"} /\ handler.has_sidecar_files) =>
        handler.sidecar_files =
            {SubSeq(e, Len(handler.base_name) + Len(Sep) + 1, Len(e)) :
                e \in {x \in Listdir(fs, handler.directory) :
                          StartsWith(x, handler.base_name \o Sep)}}

\* C9: get_all returns a mapping whose keys are the discovered identifiers and
\* whose value at each identifier is what get returns for it.
C9_GetAllReturnsMapping ==
    (op = "get_all" /\ pc = "done") =>
        /\ result.kind = "dict"
        /\ DOMAIN result.value = handler.sidecar_files
        /\ \A ident \in handler.sidecar_files :
              result.value[ident] = universal_load(fs,
                  handler.directory \o <<"/">> \o handler.base_name \o Sep \o ident)

\* C10: after a run that persisted a state for every primary, list_directory
\* returns the primary set the run worked on, and lists every sidecar the run
\* wrote under its primary.
C10_RerunStable ==
    (/\ op = "rescan"
     /\ pc = "done"
     /\ \A f \in first_scan : f \in exhausted /\ produced[f] >= 1) =>
        /\ non_sidecar_files = first_scan
        /\ \A f \in first_scan :
              /\ f \in DOMAIN sidecar_files
              /\ \E i \in 1..Len(sidecar_files[f]) :
                    sidecar_files[f][i] = f \o Sep \o identifier

====
